---- MODULE Spec2Model ----
(***************************************************************************)
(* reddit-to-gmap: a command-line pipeline                                 *)
(*   forum posts -> restaurant candidates -> resolved restaurants -> CSV   *)
(* with a file snapshot per stage (getCachedOrFetch).                      *)
(*                                                                         *)
(* One process runs at a time.  A run is a sequence of steps, one per      *)
(* external interaction (network call, file write, sleep); the process may *)
(* be terminated between any two steps.                                    *)
(***************************************************************************)
EXTENDS Integers, Sequences, FiniteSets, TLC

VARIABLES
    \* ---- command line and process
    pc,            \* position of the process in the code
    cmd,           \* 1 export-reddit, 2 export-restaurant-data,
                   \* 3 export-full-restaurant-data, 4 generate-...-csv
    subreddit,     \* --subreddit
    numPosts,      \* --num-posts
    useCache,      \* --use-cache
    exitCode,      \* -1 while running or terminated, else the exit code
    env,           \* names of the credentials set in the environment
    numOutput,     \* --num-output (0: no limit)
    \* ---- files
    disk,          \* cache key -> snapshot file under .cache/
    csvFile,       \* out/<subreddit>.csv
    \* ---- getCachedOrFetch
    k,             \* stage whose getCachedOrFetch is executing (1, 2, 3)
    ret,           \* stage -> value returned by its getCachedOrFetch
    result,        \* getCachedOrFetch's result, between fetchFn and the write
    \* ---- reddit.Client.GetPosts
    token,         \* c.token
    allPosts,      \* allPosts
    after,         \* after
    count,         \* count
    gpErr,         \* GetPosts returned an error
    \* ---- exportFullRestaurantData loop
    i,             \* index of the candidate the loop is at (1-based)
    fullRestaurants,
    \* ---- exportToCSV
    restaurants,   \* the sorted list
    writer,        \* "none", "open", "closed"
    \* ---- observation only (never read by the program)
    reqLog,        \* page requests of the current GetPosts call
    searchLog,     \* place searches and sleeps of the current resolution loop
    obs,           \* what the current run did
    prev           \* what the previous run did, when this is a re-invocation

vars == << pc, cmd, subreddit, numPosts, useCache, exitCode, env, numOutput, disk,
          csvFile, k,
           ret, result, token, allPosts, after, count, gpErr, i,
           fullRestaurants, restaurants, writer, reqLog, searchLog, obs, prev >>

-----------------------------------------------------------------------------
(* Bounds of the model *)

MaxLimit == 250        \* largest --num-posts tried on GetPosts alone
MaxRequests == 4       \* page requests one GetPosts call may issue here
MaxCandidates == 3   \* longest candidate list tried on the resolution loop
MaxNumPosts == 2     \* largest --num-posts tried on the commands
MaxRows == 3         \* longest resolved list tried on the export alone
MaxRuns == 3         \* invocations in a row tried on a damaged snapshot
MaxCalls == 3        \* GetPosts calls tried on one forum client

(* Program constants *)

maxLimitPerRequest == 100
sleepSeconds == 2

-----------------------------------------------------------------------------
(* Small helpers *)

Min(a, b) == IF a < b THEN a ELSE b

Range(s) == { s[j] : j \in 1..Len(s) }

SeqsUpTo(S, n) == UNION { [1..m -> S] : m \in 0..n }

-----------------------------------------------------------------------------
(* The forum: a ranked listing; a cursor names the position of the last     *)
(* item of a page ("" before the first page).                               *)

MaxPos == MaxLimit + maxLimitPerRequest

CursorOf(p) == "t3_" \o ToString(p)

CursorTable == [p \in 0..MaxPos |-> CursorOf(p)]

PosOf(c) == IF c = "" THEN 0 ELSE CHOOSE p \in 0..MaxPos : CursorTable[p] = c

\* the listing's item at position p, as the API returns it
RawPost(p) == [score |-> p, permalink |-> "/r/p"]

\* what a page request (limit, after) may return: an error, or n <= limit
\* items following the cursor, with or without a continuation cursor
PageLens(lim) == {0, 1, lim - 1, lim} \cap 0..lim

PageItems(aft, n) == [j \in 1..n |-> RawPost(PosOf(aft) + j)]

NextCursors(aft, n) == {"", CursorTable[PosOf(aft) + n]}

-----------------------------------------------------------------------------
(* reddit.Client *)

\* fetchPostsPage: the permalink of each child is made absolute
fetchPostsPage(children) ==
    [j \in 1..Len(children) |->
        [children[j] EXCEPT !.permalink = "https://www.reddit.com" \o @]]

\* faulty variant: the page size without the cap
remainingLimit_uncapped(limit, fetched) == limit - fetched

\* GetPosts: the size of the next page request
remainingLimit(limit, fetched) == Min(limit - fetched, maxLimitPerRequest)

\* GetPosts: the loop condition
MorePosts(fetched, limit) == fetched < limit

\* faulty variant: the cursor is never advanced
nextRequestAfter_stale(aft, nextAfter) == aft

\* GetPosts line 163: the cursor of the next request
nextRequestAfter(aft, nextAfter) == nextAfter

\* getToken: the exchange fails (transport or decoding error), or the body
\* decodes; a body without access_token (a rejection) decodes to ""
TokenOutcomes ==
    { [err |-> TRUE,  access_token |-> ""],
      [err |-> FALSE, access_token |-> "tok"],
      [err |-> FALSE, access_token |-> ""] }

-----------------------------------------------------------------------------
(* gemini.Restaurant and maps.Restaurant *)

Nil == << >>
Some(x) == << x >>

Candidate(name, upvotes, neighborhood) ==
    [ Name |-> name, Upvotes |-> upvotes,
      RedditUrl |-> "https://www.reddit.com/r/p",
      Neighborhood |-> neighborhood, GoogleMapsUrl |-> "" ]

CandidatePool ==
    { Candidate("Joe's Pizza", 5, "Greenwich Village"),
      Candidate("Katz", 9, ""),
      Candidate("Joe's Pizza", 9, "") }

\* a place of a SearchText response: optional fields are Nil or Some(v);
\* coordinates in micro-degrees, rating in tenths
Place(id, ratingCount, location, typeName) ==
    [ Name |-> [prefix |-> "places/", id |-> id],
      UserRatingCount |-> ratingCount,
      Location |-> location,
      Rating |-> 45,
      PrimaryTypeDisplayName |-> typeName ]

PlaceUsable  == Place("ChIJ1", Some(120), Some([Latitude |-> 40730610, Longitude |-> -73935242]),
                      Some([Text |-> "Pizza restaurant"]))
PlaceNoCount == Place("ChIJ2", Nil, Some([Latitude |-> 40730610, Longitude |-> -73935242]),
                      Some([Text |-> "Restaurant"]))
PlaceNoType  == Place("ChIJ3", Some(7), Some([Latitude |-> 40730610, Longitude |-> -73935242]),
                      Nil)

\* what SearchText may answer: an error, or a list of places
SearchResponses ==
    { [err |-> TRUE,  Places |-> << >>],
      [err |-> FALSE, Places |-> << >>],
      [err |-> FALSE, Places |-> << PlaceNoCount, PlaceUsable >>],
      [err |-> FALSE, Places |-> << PlaceUsable, PlaceNoCount >>],
      [err |-> FALSE, Places |-> << PlaceNoType >>] }

TrimPrefix(name) == name.id

\* FetchGoogleMapsLink lines 140-144
SearchQuery(restaurant) ==
    (IF restaurant.Neighborhood # ""
       THEN restaurant.Name \o " " \o restaurant.Neighborhood
       ELSE restaurant.Name) \o " NYC"

\* FetchGoogleMapsLink lines 175-188; dereferences place.Location and
\* place.PrimaryTypeDisplayName
ResolvedRestaurant(restaurant, place) ==
    [ Name |-> restaurant.Name, Upvotes |-> restaurant.Upvotes,
      RedditUrl |-> restaurant.RedditUrl,
      Neighborhood |-> restaurant.Neighborhood,
      GoogleMapsData |->
        [ Latitude |-> place.Location[1].Latitude,
          Longitude |-> place.Location[1].Longitude,
          Rating |-> place.Rating,
          UserRatingCount |-> place.UserRatingCount[1],
          GoogleMapsUrl |-> "https://www.google.com/maps/place/?q=place_id:"
                              \o TrimPrefix(place.Name),
          Type |-> place.PrimaryTypeDisplayName[1].Text ] ]

ReturnOf(res, err, panic) == [result |-> res, err |-> err, panic |-> panic]

\* faulty variant: zero matches reported as an error
FetchGoogleMapsLink_zeroIsError(restaurant, resp) ==
    IF resp.err \/ Len(resp.Places) = 0 THEN ReturnOf(Nil, TRUE, FALSE)
    ELSE IF resp.Places[1].UserRatingCount = Nil THEN ReturnOf(Nil, FALSE, FALSE)
    ELSE IF resp.Places[1].Location = Nil \/ resp.Places[1].PrimaryTypeDisplayName = Nil
      THEN ReturnOf(Nil, FALSE, TRUE)
    ELSE ReturnOf(Some(ResolvedRestaurant(restaurant, resp.Places[1])), FALSE, FALSE)

\* FetchGoogleMapsLink lines 154-190: (result, err) for the answer resp of
\* SearchText; panic when a nil Location or PrimaryTypeDisplayName is
\* dereferenced
FetchGoogleMapsLink(restaurant, resp) ==
    IF resp.err THEN ReturnOf(Nil, TRUE, FALSE)
    ELSE IF Len(resp.Places) = 0 THEN ReturnOf(Nil, FALSE, FALSE)
    ELSE IF resp.Places[1].UserRatingCount = Nil THEN ReturnOf(Nil, FALSE, FALSE)
    ELSE IF resp.Places[1].Location = Nil \/ resp.Places[1].PrimaryTypeDisplayName = Nil
      THEN ReturnOf(Nil, FALSE, TRUE)
    ELSE ReturnOf(Some(ResolvedRestaurant(restaurant, resp.Places[1])), FALSE, FALSE)

\* faulty variant: the result is appended without the nil check
appendResult_unchecked(full, res) ==
    IF res = Nil THEN Append(full, Candidate("", 0, "")) ELSE Append(full, res[1])

\* exportFullRestaurantData lines 213-215
appendResult(full, res) ==
    IF res # Nil THEN Append(full, res[1]) ELSE full

-----------------------------------------------------------------------------
(* Snapshots: the JSON a value is stored as, and what it decodes to *)

Get(o, key, zero) == IF key \in DOMAIN o THEN o[key] ELSE zero

\* a field tagged omitempty
OmitEmpty(o, key, v) == IF v = "" THEN o ELSE o @@ (key :> v)

EncodePost(p) == [data |-> [score |-> p.score, permalink |-> p.permalink]]

DecodePost(o) ==
    LET d == Get(o, "data", << >>) IN
    [score |-> Get(d, "score", 0), permalink |-> Get(d, "permalink", "")]

EncodeCandidate(c) ==
    OmitEmpty(OmitEmpty([name |-> c.Name, upvotes |-> c.Upvotes, reddit_url |-> c.RedditUrl],
                        "neighborhood", c.Neighborhood),
              "google_maps_url", c.GoogleMapsUrl)

DecodeCandidate(o) ==
    [ Name |-> Get(o, "name", ""), Upvotes |-> Get(o, "upvotes", 0),
      RedditUrl |-> Get(o, "reddit_url", ""),
      Neighborhood |-> Get(o, "neighborhood", ""),
      GoogleMapsUrl |-> Get(o, "google_maps_url", "") ]

\* faulty variant: the upvotes are stored under a tag the decoder does not read
EncodeResolved_wrongTag(r) ==
    OmitEmpty([ name |-> r.Name, votes |-> r.Upvotes, reddit_url |-> r.RedditUrl,
                google_maps_data |->
                  [ latitude |-> r.GoogleMapsData.Latitude,
                    longitude |-> r.GoogleMapsData.Longitude,
                    rating |-> r.GoogleMapsData.Rating,
                    user_rating_count |-> r.GoogleMapsData.UserRatingCount,
                    google_maps_url |-> r.GoogleMapsData.GoogleMapsUrl,
                    type |-> r.GoogleMapsData.Type ] ],
              "neighborhood", r.Neighborhood)

EncodeResolved(r) ==
    OmitEmpty([ name |-> r.Name, upvotes |-> r.Upvotes, reddit_url |-> r.RedditUrl,
                google_maps_data |->
                  [ latitude |-> r.GoogleMapsData.Latitude,
                    longitude |-> r.GoogleMapsData.Longitude,
                    rating |-> r.GoogleMapsData.Rating,
                    user_rating_count |-> r.GoogleMapsData.UserRatingCount,
                    google_maps_url |-> r.GoogleMapsData.GoogleMapsUrl,
                    type |-> r.GoogleMapsData.Type ] ],
              "neighborhood", r.Neighborhood)

DecodeResolved(o) ==
    LET g == Get(o, "google_maps_data", << >>) IN
    [ Name |-> Get(o, "name", ""), Upvotes |-> Get(o, "upvotes", 0),
      RedditUrl |-> Get(o, "reddit_url", ""),
      Neighborhood |-> Get(o, "neighborhood", ""),
      GoogleMapsData |->
        [ Latitude |-> Get(g, "latitude", 0), Longitude |-> Get(g, "longitude", 0),
          Rating |-> Get(g, "rating", 0),
          UserRatingCount |-> Get(g, "user_rating_count", 0),
          GoogleMapsUrl |-> Get(g, "google_maps_url", ""),
          Type |-> Get(g, "type", "") ] ]

\* json.Marshal of the value a stage returns (stage 1 []reddit.Post,
\* 2 []gemini.Restaurant, 3 []maps.Restaurant)
Encode(stage, val) ==
    [j \in 1..Len(val) |->
        CASE stage = 1 -> EncodePost(val[j])
          [] stage = 2 -> EncodeCandidate(val[j])
          [] OTHER     -> EncodeResolved(val[j])]

\* json.Unmarshal of a snapshot's data into the type of the stage: keys the
\* type does not have are ignored, fields without a key stay zero
Decode(stage, data) ==
    [j \in 1..Len(data) |->
        CASE stage = 1 -> DecodePost(data[j])
          [] stage = 2 -> DecodeCandidate(data[j])
          [] OTHER     -> DecodeResolved(data[j])]

-----------------------------------------------------------------------------
(* The cache directory *)

Subreddits == {"x", "x_restaurants"}

\* main.go lines 135, 152, 186
CacheKey(sub, stage) ==
    CASE stage = 1 -> sub
      [] stage = 2 -> sub \o "_restaurants"
      [] OTHER     -> sub \o "_full_restaurants"

AllKeys == { CacheKey(sub, stage) : sub \in Subreddits, stage \in 1..3 }

NoWriter == << "", 0 >>

\* a file of .cache/: absent, complete, or cut short by a write that did not
\* finish; by: the (community, stage) that wrote it (observation only)
NoFile == [st |-> "none", data |-> << >>, by |-> NoWriter]
PartialFile == [st |-> "corrupt", data |-> << >>, by |-> NoWriter]

\* faulty variant: the data is not in the file yet when the write returns
WrittenFile_unflushed(old, data, by) == old

\* faulty variant: the new data is added to the data already in the file
WrittenFile_merged(old, data, by) == [st |-> "ok", data |-> old.data \o data, by |-> by]

\* WriteToCache lines 224-235: the file holds the new envelope and nothing else
WrittenFile(old, data, by) == [st |-> "ok", data |-> data, by |-> by]

EmptyDisk == [key \in AllKeys |-> NoFile]

\* faulty variant: a file that cannot be parsed counts as absent
CacheExists_readable(d, key) == d[key].st = "ok"

\* CacheExists: os.Stat succeeds
CacheExists(d, key) == d[key].st # "none"

\* faulty variant: the existence test is inverted
UseCached_inverted(uc, exists) == uc /\ ~exists

\* getCachedOrFetch line 98
UseCached(uc, exists) == uc /\ exists

\* faulty variant: the nested stage is called with the default of the flag
innerUseCache_default(uc) == TRUE

\* faulty variant: the nested stage is asked to bypass the cache
innerUseCache_off(uc) == FALSE

\* lines 158 and 192: the flag a fetchFn passes to the stage below
innerUseCache(uc) == uc

TopStage(c) == IF c = 4 THEN 3 ELSE c

\* faulty variant: a posts snapshot that holds fewer posts than the run asks
\* for is not used
stageUseCache_countChecked(stage) ==
    /\ useCache
    /\ stage = 1 => Len(disk[CacheKey(subreddit, 1)].data) >= numPosts

\* the useCache argument of the getCachedOrFetch call of a stage
stageUseCache(stage) ==
    IF stage = TopStage(cmd) THEN useCache ELSE innerUseCache(useCache)

Credentials ==
    { "REDDIT_CLIENT_ID", "REDDIT_CLIENT_SECRET", "GOOGLE_GEMINI_API_KEY",
      "GOOGLE_MAPS_API_KEY" }

\* the network calls of a stage
StageCalls(stage) ==
    CASE stage = 1 -> {"token", "page"}
      [] stage = 2 -> {"gemini"}
      [] OTHER     -> {"search"}

-----------------------------------------------------------------------------
(* Observation of a run *)

NoObs ==
    [ net     |-> {},                    \* kinds of network calls made
      fetched |-> [s \in 1..3 |-> 0],    \* invocations of each stage's fetchFn
      saw     |-> {},                    \* stages checked with use-cache and a
                                         \* readable snapshot at their key
      missed  |-> {},                    \* stages checked with use-cache off
                                         \* or no snapshot at their key
      hits    |-> {},                    \* stages answered from the snapshot
      bypassed |-> {},                   \* stages checked with use-cache off
                                         \* and a snapshot at their key
      opened  |-> {},                    \* stages whose snapshot file was
                                         \* opened for writing
      wrote   |-> <<>>,                  \* stages whose snapshot was written
      extract |-> <<>>,                  \* the extraction calls made: posts
                                         \* sent, kind of answer
      foreign |-> FALSE,                 \* a snapshot of another (community,
                                         \* stage) was returned as this one's
      failed  |-> {},                    \* kinds of failures met, other than
                                         \* those of a single place search
      calls   |-> 0,                     \* GetPosts calls on the forum client
      exchanges |-> <<>> ]               \* answers of its token exchanges

Net(kind) == [obs EXCEPT !.net = @ \cup {kind}]

Failure(o, kind) == [o EXCEPT !.failed = @ \cup {kind}]

NoCsv == [st |-> "none", rows |-> << >>]
NoRet == [s \in 1..3 |-> [st |-> "none", val |-> << >>]]

\* what is remembered of the invocation before the current one
NoPrev ==
    [ kind |-> "none", cmd |-> 0, numPosts |-> 0, exitCode |-> 0, wrote |-> {},
      rows |-> << >>, hist |-> << >> ]

runVars  == << cmd, subreddit, numPosts, useCache, env, numOutput >>
gpVars   == << token, allPosts, after, count, gpErr, reqLog >>
gcfVars  == << k, ret, result >>
loopVars == << i, fullRestaurants, searchLog >>
csvVars  == << restaurants, writer, csvFile >>

-----------------------------------------------------------------------------
(* reddit.Client.GetPosts, step by step *)

\* lines 133-137: the token exchange, when the client holds no token
GetPostsToken ==
    /\ pc = "GetPosts"
    /\ IF token = ""
         THEN \E r \in TokenOutcomes :
                /\ LET o1 == [Net("token") EXCEPT
                                !.calls = @ + 1, !.exchanges = Append(@, r)]
                   IN  obs' = (IF r.err THEN Failure(o1, "token")
                               ELSE IF r.access_token = ""
                                 THEN Failure(o1, "token rejected")
                               ELSE o1)
                /\ IF r.err
                     THEN /\ gpErr' = TRUE
                          /\ pc' = "GetPosts_ret"
                          /\ token' = token
                     ELSE /\ token' = r.access_token
                          /\ pc' = "GetPosts_loop"
                          /\ gpErr' = gpErr
         ELSE /\ pc' = "GetPosts_loop"
              /\ obs' = [obs EXCEPT !.calls = @ + 1]
              /\ UNCHANGED << token, gpErr >>
    /\ UNCHANGED << runVars, exitCode, disk, gcfVars, allPosts, after, count,
                    reqLog, loopVars, csvVars, prev >>

\* lines 144-164: one iteration of the loop, with fetchPostsPage. The
\* request is added to the log of the call (full), which holds at most
\* MaxRequests requests, or only the last request is kept, marked as an odd
\* or an even one
PageStep(full) ==
    /\ pc = "GetPosts_loop"
    /\ MorePosts(Len(allPosts), numPosts)
    /\ full => Len(reqLog) < MaxRequests
    /\ LET lim == remainingLimit(numPosts, Len(allPosts))
           req == [limit |-> lim, after |-> after, count |-> count,
                   token |-> token]
           Logged(e) ==
               IF full THEN Append(reqLog, e)
               ELSE << e @@ [odd |-> (reqLog = << >> \/ ~reqLog[1].odd)] >>
       IN  \/ \* the request fails: return nil, err
              /\ reqLog' = Logged(req @@ [ok |-> FALSE, n |-> 0, next |-> ""])
              /\ gpErr' = TRUE
              /\ pc' = "GetPosts_ret"
              /\ obs' = Failure(Net("page"), "page")
              /\ UNCHANGED << allPosts, after, count >>
           \/ \E n \in PageLens(lim) : \E nx \in NextCursors(after, n) :
                LET posts == fetchPostsPage(PageItems(after, n)) IN
                /\ reqLog' = Logged(req @@ [ok |-> TRUE, n |-> n, next |-> nx])
                /\ allPosts' = allPosts \o posts
                /\ count' = count + Len(posts)
                /\ gpErr' = gpErr
                /\ obs' = Net("page")
                /\ IF nx = ""
                     THEN /\ pc' = "GetPosts_ret"
                          /\ after' = after
                     ELSE /\ pc' = "GetPosts_loop"
                          /\ after' = nextRequestAfter(after, nx)
    /\ UNCHANGED << runVars, exitCode, disk, gcfVars, token, loopVars, csvVars,
                    prev >>

GetPostsPage == PageStep(TRUE)

\* the same iteration, only the last request kept
GetPostsPageOnly == PageStep(FALSE)

\* line 144: the loop condition fails
GetPostsLoopExit ==
    /\ pc = "GetPosts_loop"
    /\ ~MorePosts(Len(allPosts), numPosts)
    /\ pc' = "GetPosts_ret"
    /\ UNCHANGED << runVars, exitCode, disk, gcfVars, gpVars, loopVars, csvVars,
                    obs, prev >>

\* faulty variant: the pages fetched before the failure are returned
GetPostsResult_partial == allPosts

\* what GetPosts returns: (nil, err) or (allPosts, nil)
GetPostsResult == IF gpErr THEN <<>> ELSE allPosts

-----------------------------------------------------------------------------
(* exportFullRestaurantData lines 205-221: the resolution loop *)

\* restaurantData, as exportRestaurantData returned it
restaurantData == ret[2].val

\* lines 207-215: FetchGoogleMapsLink on the candidate the loop is at
ResolveSearch ==
    /\ pc = "resolve"
    /\ i <= Len(restaurantData)
    /\ \E resp \in SearchResponses :
         LET restaurant == restaurantData[i]
             r == FetchGoogleMapsLink(restaurant, resp)
             ev == [ev |-> "search", name |-> restaurant.Name,
                    query |-> SearchQuery(restaurant), resp |-> resp,
                    result |-> r.result, err |-> r.err, panic |-> r.panic]
         IN  /\ searchLog' = Append(searchLog, ev)
             /\ IF r.panic
                  THEN \* nil pointer dereference: the process dies
                       /\ pc' = "exit" /\ exitCode' = 2
                       /\ UNCHANGED << i, fullRestaurants >>
                  ELSE IF r.err
                  THEN \* line 211: continue
                       /\ pc' = "resolve" /\ i' = i + 1
                       /\ UNCHANGED << exitCode, fullRestaurants >>
                  ELSE /\ fullRestaurants' = appendResult(fullRestaurants, r.result)
                       /\ pc' = "resolve_sleep"
                       /\ UNCHANGED << exitCode, i >>
             /\ obs' = (IF r.panic THEN Failure(Net("search"), "panic")
                                   ELSE Net("search"))
    /\ UNCHANGED << runVars, disk, gcfVars, gpVars, csvVars, prev >>

\* line 217: time.Sleep(2 * time.Second), then the next candidate
ResolveSleep ==
    /\ pc = "resolve_sleep"
    /\ searchLog' = Append(searchLog, [ev |-> "sleep", secs |-> sleepSeconds])
    /\ i' = i + 1
    /\ pc' = "resolve"
    /\ UNCHANGED << runVars, exitCode, disk, gcfVars, gpVars, fullRestaurants,
                    csvVars, obs, prev >>

\* lines 220-221: the loop is over, fetchFn returns fullRestaurants
ResolveReturn ==
    /\ pc = "resolve"
    /\ i > Len(restaurantData)
    /\ result' = fullRestaurants
    /\ pc' = "WriteToCache"
    /\ UNCHANGED << runVars, exitCode, disk, k, ret, gpVars, loopVars, csvVars,
                    obs, prev >>

-----------------------------------------------------------------------------
(* getCachedOrFetch and the three stages built on it *)

Fail == pc' = "exit" /\ exitCode' = 1

\* the call of stage s returned without error: the caller goes on. The
\* caller is the command (lines 35-64), or the fetchFn of stage s + 1, which
\* creates its client (lines 162-168, 197-203) and starts its own work
StageReturned(s, v) ==
    IF s = TopStage(cmd)
      THEN /\ IF cmd = 4
                THEN pc' = "exportToCSV" /\ exitCode' = exitCode
                ELSE pc' = "exit" /\ exitCode' = 0
           /\ restaurants' = (IF cmd = 4 THEN v ELSE restaurants)
           /\ UNCHANGED << k, i, fullRestaurants >>
      ELSE /\ k' = s + 1
           /\ restaurants' = restaurants
           /\ IF s + 1 = 2
                THEN /\ IF "GOOGLE_GEMINI_API_KEY" \in env
                          THEN pc' = "ToRestaurantData" /\ exitCode' = exitCode
                          ELSE Fail
                     /\ UNCHANGED << i, fullRestaurants >>
                ELSE IF "GOOGLE_MAPS_API_KEY" \in env
                       THEN /\ pc' = "resolve" /\ exitCode' = exitCode
                            /\ i' = 1 /\ fullRestaurants' = << >>
                       ELSE /\ Fail
                            /\ UNCHANGED << i, fullRestaurants >>

\* lines 165-168, 199-202: the caller of stage s is a fetchFn whose client
\* cannot be created, its API key being unset
clientMissing(s) ==
    /\ s # TopStage(cmd)
    /\ \/ s + 1 = 2 /\ "GOOGLE_GEMINI_API_KEY" \notin env
       \/ s + 1 = 3 /\ "GOOGLE_MAPS_API_KEY" \notin env

\* lines 94-119: the cache test of the stage being called; on a miss its
\* fetchFn starts, which first calls the stage below (lines 158, 192) or,
\* for the posts, creates a client and calls GetPosts (lines 139-140)
CacheCheck ==
    /\ pc = "getCachedOrFetch"
    /\ LET key == CacheKey(subreddit, k)
           uc  == stageUseCache(k)
           f   == disk[key]
           o1  == [obs EXCEPT
                     !.saw = IF uc /\ f.st = "ok" THEN @ \cup {k} ELSE @,
                     !.missed = IF ~uc \/ f.st = "none" THEN @ \cup {k} ELSE @,
                     !.bypassed = IF ~uc /\ f.st # "none" THEN @ \cup {k} ELSE @]
       IN  IF UseCached(uc, CacheExists(disk, key))
             THEN IF f.st = "ok"
                    THEN /\ ret' = [ret EXCEPT ![k] =
                                      [st |-> "ok", val |-> Decode(k, f.data)]]
                         /\ obs' = [o1 EXCEPT
                                      !.hits = @ \cup {k},
                                      !.foreign = @ \/ f.by # << subreddit, k >>,
                                      !.failed = IF clientMissing(k)
                                                   THEN @ \cup {"client"} ELSE @]
                         /\ StageReturned(k, Decode(k, f.data))
                    ELSE \* ReadFromCache fails
                         /\ Fail
                         /\ obs' = Failure(o1, "cache read")
                         /\ UNCHANGED << k, ret, i, fullRestaurants, restaurants >>
             ELSE /\ obs' = [o1 EXCEPT !.fetched[k] = @ + 1]
                  /\ IF k > 1
                       THEN k' = k - 1 /\ pc' = "getCachedOrFetch"
                       ELSE k' = k /\ pc' = "GetPosts"
                  /\ UNCHANGED << exitCode, ret, i, fullRestaurants, restaurants >>
    /\ UNCHANGED << runVars, disk, result, gpVars, searchLog, writer, csvFile,
                    prev >>

\* faulty variant: the result is stored whether or not fetchFn failed
afterFetch_storesAnyway(err) == "WriteToCache"

\* getCachedOrFetch lines 119-127: when fetchFn has returned an error the call
\* returns it, and so does every caller up to main; otherwise the result is
\* written
afterFetch(err) == IF err THEN "exit" ELSE "WriteToCache"

\* exportReddit lines 140-145: GetPosts has returned
ExportRedditReturn ==
    /\ pc = "GetPosts_ret"
    /\ pc' = afterFetch(gpErr)
    /\ exitCode' = (IF gpErr THEN 1 ELSE exitCode)
    /\ result' = (IF gpErr THEN result ELSE GetPostsResult)
    /\ token' = "" /\ allPosts' = << >> /\ after' = "" /\ count' = 0
    /\ gpErr' = FALSE
    /\ reqLog' = (IF gpErr THEN reqLog ELSE << >>)
    /\ UNCHANGED << runVars, disk, k, ret, loopVars, csvVars, obs, prev >>

Joes == Candidate("Joe's Pizza", 5, "Greenwich Village")
Katz == Candidate("Katz", 9, "")

\* the lists the generative model may answer with
ExtractionLists == { << >>, << Katz >>, << Joes, Katz >> }

GeminiOutcomes ==
    { [kind |-> "error", restaurants |-> << >>],
      [kind |-> "no response", restaurants |-> << >>],
      [kind |-> "unparsable", restaurants |-> << >>] }
      \cup { [kind |-> "ok", restaurants |-> l] : l \in ExtractionLists }

\* faulty variant: an answer without candidates counts as an empty list
extractionFailed_lenient(kind) == kind \notin {"ok", "no response"}

\* ToRestaurantData's three error returns (GenerateContent failed, no
\* candidates in the response, the text is not the expected JSON)
extractionFailed(kind) == kind # "ok"

\* the posts handed to ToRestaurantData, as exportReddit returned them
posts == ret[1].val

\* exportRestaurantData lines 171-178 with gemini.ToRestaurantData: all the
\* posts go into the prompt of one GenerateContent call
ToRestaurantData ==
    /\ pc = "ToRestaurantData"
    /\ \E out \in GeminiOutcomes :
         /\ LET o1 == [Net("gemini") EXCEPT !.extract =
                         Append(@, [posts |-> Len(posts), kind |-> out.kind])]
            IN  obs' = (IF extractionFailed(out.kind)
                          THEN Failure(o1, "extraction") ELSE o1)
         /\ pc' = afterFetch(extractionFailed(out.kind))
         /\ exitCode' = (IF extractionFailed(out.kind) THEN 1 ELSE exitCode)
         /\ result' = (IF extractionFailed(out.kind) THEN result
                                                    ELSE out.restaurants)
    /\ UNCHANGED << runVars, disk, k, ret, gpVars, loopVars, csvVars, prev >>

\* lines 121-129 with cache.WriteToCache: the fetchFn succeeded
WriteToCache ==
    /\ pc = "WriteToCache"
    /\ LET key == CacheKey(subreddit, k) IN
       \/ \* the directory or the file cannot be created
          /\ Fail
          /\ obs' = Failure(obs, "cache write")
          /\ UNCHANGED << disk, k, ret, i, fullRestaurants, restaurants >>
       \/ \* the write stops part-way
          /\ Fail
          /\ disk' = [disk EXCEPT ![key] = PartialFile]
          /\ obs' = Failure([obs EXCEPT !.opened = @ \cup {k}], "cache write")
          /\ UNCHANGED << k, ret, i, fullRestaurants, restaurants >>
       \/ /\ disk' = [disk EXCEPT ![key] =
                        WrittenFile(disk[key], Encode(k, result), << subreddit, k >>)]
          /\ obs' = [obs EXCEPT !.opened = @ \cup {k}, !.wrote = Append(@, k),
                                !.failed = IF clientMissing(k)
                                             THEN @ \cup {"client"} ELSE @]
          /\ ret' = [ret EXCEPT ![k] = [st |-> "ok", val |-> result]]
          /\ StageReturned(k, result)
    /\ result' = << >>
    /\ searchLog' = << >>
    /\ UNCHANGED << runVars, gpVars, writer, csvFile, prev >>

-----------------------------------------------------------------------------
(* exportToCSV lines 227-270, with the csv package *)

RECURSIVE Digits(_, _)
\* the last w decimal digits of n
Digits(n, w) == IF w = 0 THEN "" ELSE Digits(n \div 10, w - 1) \o ToString(n % 10)

\* fmt "%.<w>f" of the number x / 10^w
Fixed(x, w) ==
    LET a == IF x < 0 THEN 0 - x ELSE x IN
    (IF x < 0 THEN "-" ELSE "") \o ToString(a \div (10 ^ w)) \o "." \o Digits(a % (10 ^ w), w)

\* faulty variant: the sort is left out
SortByUpvotes_unsorted(l) == l

RECURSIVE SortByUpvotes(_)
\* sort.Slice with less = "more upvotes": for the short lists here an
\* insertion sort, an element moving left past those with fewer upvotes
SortByUpvotes(l) ==
    IF l = << >> THEN << >>
    ELSE LET sorted == SortByUpvotes(SubSeq(l, 1, Len(l) - 1))
             x == l[Len(l)]
             before == SelectSeq(sorted, LAMBDA y : y.Upvotes >= x.Upvotes)
             behind == SelectSeq(sorted, LAMBDA y : y.Upvotes < x.Upvotes)
         IN  before \o << x >> \o behind

header ==
    << "Name", "Type", "Google Maps url", "Google Maps rating", "Reddit url",
       "Lat", "Lng" >>

\* faulty variant: the rank is the loop index, which starts at zero
Row_zeroBased(restaurant, rank) ==
    << restaurant.Name \o " (#" \o ToString(rank - 1) \o ", "
         \o ToString(restaurant.Upvotes) \o " upvotes)",
       restaurant.GoogleMapsData.Type,
       restaurant.GoogleMapsData.GoogleMapsUrl,
       Fixed(restaurant.GoogleMapsData.Rating, 1) \o " ("
         \o ToString(restaurant.GoogleMapsData.UserRatingCount) \o " reviews)",
       restaurant.RedditUrl,
       Fixed(restaurant.GoogleMapsData.Latitude, 6),
       Fixed(restaurant.GoogleMapsData.Longitude, 6) >>

\* lines 252-260: the row of the restaurant at position rank of the sorted list
Row(restaurant, rank) ==
    << restaurant.Name \o " (#" \o ToString(rank) \o ", "
         \o ToString(restaurant.Upvotes) \o " upvotes)",
       restaurant.GoogleMapsData.Type,
       restaurant.GoogleMapsData.GoogleMapsUrl,
       Fixed(restaurant.GoogleMapsData.Rating, 1) \o " ("
         \o ToString(restaurant.GoogleMapsData.UserRatingCount) \o " reviews)",
       restaurant.RedditUrl,
       Fixed(restaurant.GoogleMapsData.Latitude, 6),
       Fixed(restaurant.GoogleMapsData.Longitude, 6) >>

NoCsvWriter == [st |-> "none", buf |-> << >>]

\* faulty variant: the trailing rows are kept
outputLimit_trailing(l, K) ==
    IF K > 0 THEN SubSeq(l, Len(l) - Min(K, Len(l)) + 1, Len(l)) ELSE l

\* the leading rows an output limit keeps (K = 0: no limit)
outputLimit(l, K) == IF K > 0 THEN SubSeq(l, 1, Min(K, Len(l))) ELSE l

\* faulty variant: Close is called at the end of the function only, an error
\* return leaves the writer open and its buffer unwritten
deferredClose_missing(w, f, failed) ==
    IF failed THEN [writer |-> w, file |-> f]
    ELSE [writer |-> [st |-> "closed", buf |-> << >>],
          file |-> [st |-> "file", rows |-> w.buf]]

\* line 243 with Writer.Close: whichever way exportToCSV returns, Flush hands
\* the buffered rows to the file and the file is closed
deferredClose(w, f, failed) ==
    [ writer |-> [st |-> "closed", buf |-> << >>],
      file   |-> [st |-> "file", rows |-> w.buf] ]

\* lines 235-243: the sort, then csv.NewWriter creates out/<subreddit>.csv
CsvNewWriter ==
    /\ pc = "exportToCSV"
    /\ restaurants' = outputLimit(SortByUpvotes(restaurants), numOutput)
    /\ \/ /\ Fail /\ obs' = Failure(obs, "csv")
          /\ UNCHANGED << writer, csvFile >>
       \/ /\ csvFile' = [st |-> "file", rows |-> << >>]
          /\ writer' = [st |-> "open", buf |-> << >>]
          /\ pc' = "WriteHeader" /\ exitCode' = exitCode
          /\ obs' = obs
    /\ i' = 0
    /\ UNCHANGED << runVars, disk, gcfVars, gpVars, fullRestaurants, searchLog,
                    prev >>

\* lines 245-249
CsvWriteHeader ==
    /\ pc = "WriteHeader"
    /\ \/ /\ Fail
          /\ writer' = deferredClose(writer, csvFile, TRUE).writer
          /\ csvFile' = deferredClose(writer, csvFile, TRUE).file
          /\ i' = i
          /\ obs' = Failure(obs, "csv")
       \/ /\ writer' = [writer EXCEPT !.buf = Append(@, header)]
          /\ i' = 1
          /\ pc' = "WriteRow" /\ exitCode' = exitCode
          /\ csvFile' = csvFile
          /\ obs' = obs
    /\ UNCHANGED << runVars, disk, gcfVars, gpVars, fullRestaurants, searchLog,
                    restaurants, prev >>

\* lines 251-264: one row
CsvWriteRow ==
    /\ pc = "WriteRow"
    /\ i <= Len(restaurants)
    /\ \/ /\ Fail
          /\ writer' = deferredClose(writer, csvFile, TRUE).writer
          /\ csvFile' = deferredClose(writer, csvFile, TRUE).file
          /\ i' = i
          /\ obs' = Failure(obs, "csv")
       \/ /\ writer' = [writer EXCEPT !.buf = Append(@, Row(restaurants[i], i))]
          /\ i' = i + 1
          /\ pc' = "WriteRow" /\ exitCode' = exitCode
          /\ csvFile' = csvFile
          /\ obs' = obs
    /\ UNCHANGED << runVars, disk, gcfVars, gpVars, fullRestaurants, searchLog,
                    restaurants, prev >>

\* lines 267-269: return nil, the deferred Close runs
CsvReturn ==
    /\ pc = "WriteRow"
    /\ i > Len(restaurants)
    /\ writer' = deferredClose(writer, csvFile, FALSE).writer
    /\ csvFile' = deferredClose(writer, csvFile, FALSE).file
    /\ pc' = "exit" /\ exitCode' = 0
    /\ UNCHANGED << runVars, disk, gcfVars, gpVars, loopVars, restaurants, obs,
                    prev >>

-----------------------------------------------------------------------------
(* The process: started from the command line, possibly killed *)

Running == pc \notin {"start", "exit", "killed"}

\* the memory of a process that has just started
FreshProcess ==
    /\ exitCode' = -1
    /\ ret' = NoRet /\ result' = << >>
    /\ token' = "" /\ allPosts' = << >> /\ after' = "" /\ count' = 0
    /\ gpErr' = FALSE /\ reqLog' = << >>
    /\ i' = 0 /\ fullRestaurants' = << >> /\ searchLog' = << >>
    /\ restaurants' = << >> /\ writer' = NoCsvWriter

\* lines 30-64: cobra runs the command c with the flags s, n, uc
StartRun(c, s, n, uc) ==
    /\ cmd' = c /\ subreddit' = s /\ numPosts' = n /\ useCache' = uc
    /\ pc' = "getCachedOrFetch"
    /\ k' = TopStage(c)
    /\ FreshProcess
    /\ obs' = NoObs
    /\ UNCHANGED << env, numOutput, disk, csvFile >>

\* the process is killed: its memory is lost, the files stay as they are; a
\* snapshot being written may be left cut short
Crash ==
    /\ Running
    /\ pc' = "killed"
    /\ k' = 0
    /\ FreshProcess
    /\ IF pc = "WriteToCache"
         THEN \E partial \in BOOLEAN :
                disk' = IF partial
                          THEN [disk EXCEPT ![CacheKey(subreddit, k)] = PartialFile]
                          ELSE disk
         ELSE disk' = disk
    /\ obs' = [NoObs EXCEPT !.wrote = obs.wrote]
    /\ UNCHANGED << runVars, csvFile, prev >>

\* what the next invocation is compared with
Summary ==
    [ kind |-> IF pc = "killed" THEN "killed" ELSE "exited",
      cmd |-> cmd, numPosts |-> numPosts, exitCode |-> exitCode,
      wrote |-> Range(obs.wrote), rows |-> csvFile.rows, hist |-> prev.hist ]

\* a second invocation, after the first has ended
Restart(c, s, n, uc) ==
    /\ pc \in {"exit", "killed"}
    /\ prev.kind = "none"
    /\ prev' = Summary
    /\ StartRun(c, s, n, uc)

-----------------------------------------------------------------------------
(* The resolution loop alone: exportRestaurantData has returned a list *)

InitResolve ==
    /\ cmd = 3 /\ subreddit = "x" /\ useCache = FALSE /\ numPosts = 1
    /\ env = Credentials /\ numOutput = 0
    /\ disk = EmptyDisk /\ csvFile = NoCsv
    /\ exitCode = -1
    /\ pc = "resolve" /\ k = 3 /\ i = 1
    /\ \E l \in SeqsUpTo(CandidatePool, MaxCandidates) :
         ret = [s \in 1..3 |-> IF s = 2 THEN [st |-> "ok", val |-> l]
                               ELSE [st |-> "none", val |-> <<>>]]
    /\ result = <<>>
    /\ token = "" /\ allPosts = <<>> /\ after = "" /\ count = 0
    /\ gpErr = FALSE /\ reqLog = <<>>
    /\ fullRestaurants = <<>> /\ searchLog = <<>>
    /\ restaurants = <<>> /\ writer = NoCsvWriter
    /\ obs = [NoObs EXCEPT !.fetched = [s \in 1..3 |-> 1]]
    /\ prev = NoPrev

NextResolve == ResolveSearch \/ ResolveSleep \/ ResolveReturn

SpecResolve == InitResolve /\ [][NextResolve]_vars

-----------------------------------------------------------------------------
(* The extraction alone: exportReddit has returned a list of posts *)

InitExtract ==
    /\ cmd = 2 /\ subreddit = "x" /\ useCache = FALSE /\ numPosts = MaxLimit
    /\ env = Credentials /\ numOutput = 0
    /\ disk = EmptyDisk /\ csvFile = NoCsv
    /\ exitCode = -1
    /\ pc = "ToRestaurantData" /\ k = 2 /\ i = 0
    /\ \E n \in 1..MaxLimit :
         ret = [s \in 1..3 |->
                  IF s = 1 THEN [st |-> "ok", val |-> fetchPostsPage(PageItems("", n))]
                           ELSE [st |-> "none", val |-> <<>>]]
    /\ result = <<>>
    /\ token = "" /\ allPosts = <<>> /\ after = "" /\ count = 0
    /\ gpErr = FALSE /\ reqLog = <<>>
    /\ fullRestaurants = <<>> /\ searchLog = <<>>
    /\ restaurants = <<>> /\ writer = NoCsvWriter
    /\ obs = [NoObs EXCEPT !.fetched = [s \in 1..3 |-> IF s <= 2 THEN 1 ELSE 0],
                           !.missed = {1, 2}, !.wrote = << 1 >>,
                           !.opened = {1}, !.net = {"token", "page"}]
    /\ prev = NoPrev

NextExtract == ToRestaurantData \/ WriteToCache

SpecExtract == InitExtract /\ [][NextExtract]_vars

-----------------------------------------------------------------------------
(* GetPosts alone: a fresh client asked for numPosts posts *)

LimitChoices ==
    { 0, 1, maxLimitPerRequest - 1, maxLimitPerRequest, maxLimitPerRequest + 1,
      2 * maxLimitPerRequest, MaxLimit }

InitProcess ==
    /\ exitCode = -1
    /\ k = 0
    /\ ret = [s \in 1..3 |-> [st |-> "none", val |-> <<>>]]
    /\ result = <<>>
    /\ token = "" /\ allPosts = <<>> /\ after = "" /\ count = 0
    /\ gpErr = FALSE /\ reqLog = <<>>
    /\ i = 0 /\ fullRestaurants = <<>> /\ searchLog = <<>>
    /\ restaurants = <<>> /\ writer = NoCsvWriter
    /\ obs = NoObs
    /\ prev = NoPrev

InitPosts ==
    /\ pc = "GetPosts"
    /\ cmd = 1 /\ subreddit = "x" /\ useCache = FALSE
    /\ numPosts \in LimitChoices
    /\ env = Credentials /\ numOutput = 0
    /\ disk = EmptyDisk /\ csvFile = NoCsv
    /\ InitProcess

NextPosts == GetPostsToken \/ GetPostsPage \/ GetPostsLoopExit

SpecPosts == InitPosts /\ [][NextPosts]_vars

-----------------------------------------------------------------------------
(* GetPosts alone, for as many page requests as it makes: the process keeps *)
(* running and every request returns                                       *)

InitTerminate ==
    /\ pc = "GetPosts"
    /\ cmd = 1 /\ subreddit = "x" /\ useCache = FALSE
    /\ numPosts \in {0, 1, 2, maxLimitPerRequest + 1}
    /\ env = Credentials /\ numOutput = 0
    /\ disk = EmptyDisk /\ csvFile = NoCsv
    /\ InitProcess

NextTerminate == GetPostsToken \/ GetPostsPageOnly \/ GetPostsLoopExit

SpecTerminate ==
    InitTerminate /\ [][NextTerminate]_vars /\ WF_vars(NextTerminate)

-----------------------------------------------------------------------------
(* One forum client asked for posts several times *)

InitClient ==
    /\ pc = "GetPosts"
    /\ cmd = 1 /\ subreddit = "x" /\ useCache = FALSE
    /\ numPosts \in {1, maxLimitPerRequest + 1}
    /\ env = Credentials /\ numOutput = 0
    /\ disk = EmptyDisk /\ csvFile = NoCsv
    /\ InitProcess

\* GetPosts lines 132-142, called again on the same client: c.token is as the
\* call before left it, allPosts, after and count start afresh
GetPostsAgain ==
    /\ pc = "GetPosts_ret"
    /\ obs.calls < MaxCalls
    /\ pc' = "GetPosts"
    /\ allPosts' = << >> /\ after' = "" /\ count' = 0 /\ gpErr' = FALSE
    /\ UNCHANGED << runVars, exitCode, disk, gcfVars, token, reqLog, loopVars,
                    csvVars, obs, prev >>

NextClient == GetPostsToken \/ GetPostsPage \/ GetPostsLoopExit \/ GetPostsAgain

SpecClient == InitClient /\ [][NextClient]_vars

-----------------------------------------------------------------------------
(* The commands on one community, over a cache directory left by earlier runs *)

NumPostsChoices == 1..MaxNumPosts

Resolved(c) == ResolvedRestaurant(c, PlaceUsable)

\* the values a stage can have stored
StageValues(stage) ==
    CASE stage = 1 -> { fetchPostsPage(PageItems("", n)) : n \in 0..1 }
      [] stage = 2 -> ExtractionLists
      [] OTHER     -> { << >>, << Resolved(Katz) >>, << Resolved(Joes) >>,
                        << Resolved(Joes), Resolved(Katz) >> }

Files(sub, stage) ==
    { NoFile, PartialFile }
      \cup { WrittenFile(NoFile, Encode(stage, v), << sub, stage >>) :
               v \in StageValues(stage) }

\* the cache directory holding the files f1, f2, f3 of the stages of sub
DiskOf(sub, f1, f2, f3) ==
    [key \in AllKeys |->
       CASE key = CacheKey(sub, 1) -> f1
         [] key = CacheKey(sub, 2) -> f2
         [] key = CacheKey(sub, 3) -> f3
         [] OTHER -> NoFile]

\* a stage's file is there only if the file of the stage below is: the stages
\* are written bottom-up, any of them may later be rewritten or cut short
BottomUp(f1, f2, f3) ==
    /\ f1 = NoFile => f2 = NoFile
    /\ f2 = NoFile => f3 = NoFile

InitialDisks(sub) ==
    { DiskOf(sub, t[1], t[2], t[3]) :
        t \in { u \in Files(sub, 1) \X Files(sub, 2) \X Files(sub, 3) :
                  BottomUp(u[1], u[2], u[3]) } }

Init ==
    /\ pc = "start"
    /\ cmd = 0 /\ subreddit = "x" /\ numPosts = 0 /\ useCache = FALSE
    /\ env = Credentials /\ numOutput = 0
    /\ disk \in InitialDisks("x")
    /\ csvFile = NoCsv
    /\ InitProcess

Invoke ==
    /\ pc = "start"
    /\ \E c \in 1..4, n \in NumPostsChoices, uc \in BOOLEAN :
         StartRun(c, subreddit, n, uc)
    /\ prev' = prev

\* any command on the same community and post count again, with the cache
\* enabled
Reinvoke ==
    \E c \in 1..4 : Restart(c, subreddit, numPosts, TRUE)

Next ==
    \/ Invoke \/ Reinvoke \/ Crash
    \/ CacheCheck \/ WriteToCache
    \/ GetPostsToken \/ GetPostsPage \/ GetPostsLoopExit \/ ExportRedditReturn
    \/ ToRestaurantData
    \/ ResolveSearch \/ ResolveSleep \/ ResolveReturn
    \/ CsvNewWriter \/ CsvWriteHeader \/ CsvWriteRow \/ CsvReturn

Spec == Init /\ [][Next]_vars

-----------------------------------------------------------------------------
(* The export alone: exportFullRestaurantData has returned a list *)

ResolvedPool == { Resolved(c) : c \in CandidatePool }

ExportStart ==
    /\ cmd = 4 /\ subreddit = "x" /\ useCache = TRUE /\ numPosts = 1
    /\ env = Credentials
    /\ disk = EmptyDisk /\ csvFile = NoCsv
    /\ exitCode = -1
    /\ pc = "exportToCSV" /\ k = 3 /\ i = 0
    /\ \E l \in SeqsUpTo(ResolvedPool, MaxRows) :
         /\ ret = [s \in 1..3 |-> IF s = 3 THEN [st |-> "ok", val |-> l]
                                  ELSE [st |-> "none", val |-> <<>>]]
         /\ restaurants = l
    /\ result = <<>>
    /\ token = "" /\ allPosts = <<>> /\ after = "" /\ count = 0
    /\ gpErr = FALSE /\ reqLog = <<>>
    /\ fullRestaurants = <<>> /\ searchLog = <<>>
    /\ writer = NoCsvWriter
    /\ obs = [NoObs EXCEPT !.saw = {3}, !.hits = {3}]
    /\ prev = NoPrev

\* the command as src/main.go has it: no output limit
InitCsv == ExportStart /\ numOutput = 0

\* the command run with --num-output
InitCsvLimit == ExportStart /\ numOutput \in 1..MaxRows

NextCsv == CsvNewWriter \/ CsvWriteHeader \/ CsvWriteRow \/ CsvReturn

SpecCsv == InitCsv /\ [][NextCsv]_vars

SpecCsvLimit == InitCsvLimit /\ [][NextCsv]_vars

-----------------------------------------------------------------------------
(* The first two commands on two communities, from an empty cache directory *)

InitKeys ==
    /\ pc = "start"
    /\ cmd = 0 /\ subreddit = "x" /\ numPosts = 0 /\ useCache = FALSE
    /\ env = Credentials /\ numOutput = 0
    /\ disk = EmptyDisk
    /\ csvFile = NoCsv
    /\ InitProcess

InvokeAny ==
    /\ pc = "start"
    /\ \E c \in 1..2, s \in Subreddits, uc \in BOOLEAN : StartRun(c, s, 1, uc)
    /\ prev' = prev

InvokeOther ==
    \E c \in 1..2, s \in Subreddits, uc \in BOOLEAN : Restart(c, s, 1, uc)

NextKeys ==
    \/ InvokeAny \/ InvokeOther
    \/ CacheCheck \/ WriteToCache
    \/ GetPostsToken \/ GetPostsPage \/ GetPostsLoopExit \/ ExportRedditReturn
    \/ ToRestaurantData

SpecKeys == InitKeys /\ [][NextKeys]_vars

-----------------------------------------------------------------------------
(* The CSV command from an empty cache directory, a credential possibly unset *)

\* all four credentials set, or all but one
Environments == { Credentials } \cup { Credentials \ {c} : c \in Credentials }

InitConfig ==
    /\ pc = "start"
    /\ cmd = 0 /\ subreddit = "x" /\ numPosts = 0 /\ useCache = FALSE
    /\ env \in Environments /\ numOutput = 0
    /\ disk = EmptyDisk
    /\ csvFile = NoCsv
    /\ InitProcess

InvokeCsv ==
    /\ pc = "start"
    /\ \E uc \in BOOLEAN : StartRun(4, subreddit, 1, uc)
    /\ prev' = prev

NextConfig ==
    \/ InvokeCsv
    \/ CacheCheck \/ WriteToCache
    \/ GetPostsToken \/ GetPostsPage \/ GetPostsLoopExit \/ ExportRedditReturn
    \/ ToRestaurantData
    \/ ResolveSearch \/ ResolveSleep \/ ResolveReturn
    \/ CsvNewWriter \/ CsvWriteHeader \/ CsvWriteRow \/ CsvReturn

SpecConfig == InitConfig /\ [][NextConfig]_vars

-----------------------------------------------------------------------------
(* One of the first two commands invoked again and again on a cache          *)
(* directory in which a terminated process has left a snapshot cut short     *)

\* the value the complete snapshots of the directory hold
StoredValue(stage) ==
    CASE stage = 1 -> fetchPostsPage(PageItems("", 1))
      [] stage = 2 -> << Katz >>
      [] OTHER     -> << Resolved(Katz) >>

DamagedDisks ==
    { d \in InitialDisks("x") :
        /\ \E s \in 1..2 : d[CacheKey("x", s)] = PartialFile
        /\ \A s \in 1..3 :
              d[CacheKey("x", s)].st = "ok"
                => d[CacheKey("x", s)].data = Encode(s, StoredValue(s)) }

InitRerun ==
    /\ pc = "start"
    /\ cmd = 0 /\ subreddit = "x" /\ numPosts = 0 /\ useCache = FALSE
    /\ env = Credentials /\ numOutput = 0
    /\ disk \in DamagedDisks
    /\ csvFile = NoCsv
    /\ InitProcess

\* how an invocation ended: the stage whose snapshot could not be read, if any
RunRecord ==
    [ cmd |-> cmd, useCache |-> useCache, exitCode |-> exitCode,
      readFailed |-> IF "cache read" \in obs.failed THEN k ELSE 0,
      wrote |-> Range(obs.wrote) ]

InvokeFirst ==
    /\ pc = "start"
    /\ \E c \in 1..2, uc \in BOOLEAN : StartRun(c, subreddit, 1, uc)
    /\ prev' = prev

\* the same command again, with or without the cache
Rerun ==
    /\ pc = "exit"
    /\ Len(prev.hist) < MaxRuns - 1
    /\ prev' = [Summary EXCEPT !.hist = Append(prev.hist, RunRecord)]
    /\ \E uc \in BOOLEAN : StartRun(cmd, subreddit, numPosts, uc)

NextRerun ==
    \/ InvokeFirst \/ Rerun
    \/ CacheCheck \/ WriteToCache
    \/ GetPostsToken \/ GetPostsPage \/ GetPostsLoopExit \/ ExportRedditReturn
    \/ ToRestaurantData

SpecRerun == InitRerun /\ [][NextRerun]_vars

-----------------------------------------------------------------------------
(* Properties of the commands (Spec) *)

\* the file of stage s of the community of the run
Snapshot(s) == disk[CacheKey(subreddit, s)]

\* C1: a stage called with use-cache true while a readable snapshot is at its
\* key returns the payload of that snapshot, its fetch function is never
\* invoked, and the snapshot is not written.
C1_HitReturnsSnapshot ==
    \A s \in obs.saw :
        /\ ret[s] = [st |-> "ok", val |-> Decode(s, Snapshot(s).data)]
        /\ obs.fetched[s] = 0
        /\ s \notin obs.opened
        /\ s \notin Range(obs.wrote)

\* C1 witness: the full-data command finds the candidates' snapshot: the
\* extraction is answered from it, the places are then searched
C1_Witness ==
    /\ pc = "exit" /\ exitCode = 0 /\ cmd = 3
    /\ obs.saw = {2} /\ obs.hits = {2}
    /\ ret[2].val = << Joes, Katz >>
    /\ obs.net = {"search"}

\* C2: a stage called with use-cache false, or with no snapshot at its key,
\* invokes its fetch function exactly once, and once it has returned a value
\* the snapshot at its key holds exactly that value, whatever was there before.
C2_MissFetchesOnceAndStores ==
    \A s \in obs.missed :
        /\ obs.fetched[s] = 1
        /\ ret[s].st = "ok" =>
              /\ Snapshot(s).st = "ok"
              /\ Snapshot(s).data = Encode(s, ret[s].val)
              /\ Decode(s, Snapshot(s).data) = ret[s].val

\* C2 witness: the cache is bypassed, all three stages are fetched and stored
C2_Witness ==
    /\ pc = "exit" /\ exitCode = 0 /\ cmd = 3 /\ ~useCache
    /\ obs.missed = {1, 2, 3} /\ obs.wrote = << 1, 2, 3 >>
    /\ ret[2].val = << Joes, Katz >>
    /\ ret[3].val = << Resolved(Katz) >>
    /\ Snapshot(3).data = Encode(3, << Resolved(Katz) >>)

\* the previous run was killed, or ended in an error
Interrupted == prev.kind = "killed" \/ (prev.kind = "exited" /\ prev.exitCode # 0)

\* C3: when the previous run was interrupted after it had completely written
\* the snapshot of stage s, the re-invocation with the cache enabled on the
\* same community makes no call to the service of any stage up to s, and runs
\* the fetch function of none of them.
C3_Resumability ==
    Interrupted =>
        \A s \in prev.wrote : \A j \in 1..s :
            /\ StageCalls(j) \cap obs.net = {}
            /\ obs.fetched[j] = 0

\* C3 witness: the run was killed after the candidates were stored; the
\* re-invocation only searches the places, and ends well
C3_Witness ==
    /\ prev.kind = "killed" /\ prev.wrote = {1, 2}
    /\ pc = "exit" /\ exitCode = 0 /\ cmd = 4
    /\ obs.net = {"search"} /\ obs.wrote = << 3 >>
    /\ Len(csvFile.rows) = 3

\* the run repeats a CSV command that ended well, with the same arguments
RepeatsCsvRun ==
    /\ prev.kind = "exited" /\ prev.exitCode = 0 /\ prev.cmd = 4
    /\ cmd = 4 /\ numPosts = prev.numPosts /\ useCache

\* C4: the invocation that repeats, with the cache enabled, a CSV command that
\* ended well makes no network call, and when it ends well the file holds the
\* rows of the first invocation, in the same order.
C4_CachedCsvIdempotent ==
    RepeatsCsvRun =>
        /\ obs.net = {}
        /\ \A s \in 1..3 : obs.fetched[s] = 0
        /\ (pc = "exit" /\ exitCode = 0) => csvFile.rows = prev.rows

\* C4 witness: the first invocation fetched all three stages and wrote two
\* rows; the second has ended well
C4_Witness ==
    /\ RepeatsCsvRun
    /\ prev.wrote = {1, 2, 3}
    /\ pc = "exit" /\ exitCode = 0
    /\ Len(csvFile.rows) = 3
    /\ csvFile.rows[2][1] = "Katz (#1, 9 upvotes)"
    /\ csvFile.rows[3][6] = "40.730610"

\* a page request of the run has failed
PageFailed == \E j \in 1..Len(reqLog) : ~reqLog[j].ok

C12_TokenFailureAbortsFetch ==
    \A j \in 1..Len(reqLog) : reqLog[j].token # ""

\* an extraction call of the run has failed
ExtractionFailed ==
    \E j \in 1..Len(obs.extract) : obs.extract[j].kind # "ok"

\* C14: once an extraction call has failed (service error, no candidate in
\* the response, unparsable text) the run is over with exit code 1: no
\* candidate list was returned, the candidates' snapshot was not written, no
\* place was searched, and the call was made once only.
C14_ExtractionFailureAbortsStage ==
    ExtractionFailed =>
        /\ pc = "exit" /\ exitCode = 1
        /\ ret[2].st = "none" /\ ret[3].st = "none"
        /\ 2 \notin obs.opened /\ 2 \notin Range(obs.wrote)
        /\ 3 \notin obs.opened
        /\ "search" \notin obs.net
        /\ Len(obs.extract) = 1

\* C14 witness: the CSV command, the posts were fetched and stored, the
\* response of the extraction carried no candidate
C14_Witness ==
    /\ pc = "exit" /\ exitCode = 1 /\ cmd = 4
    /\ obs.wrote = << 1 >>
    /\ Len(obs.extract) = 1 /\ obs.extract[1].kind = "no response"
    /\ Snapshot(1).st = "ok" /\ Snapshot(2) = NoFile

\* the stages whose getCachedOrFetch the run has called
Called == obs.saw \cup obs.missed \cup { s \in 1..3 : obs.fetched[s] > 0 }

\* C22: in a run with the cache enabled, a stage that has a readable snapshot
\* the run did not write itself never runs its fetch function; once called it
\* has returned exactly that snapshot, whatever the post count asked for, and
\* the stages below it are not called, whatever their snapshots are.
C22_CacheAlwaysTrusted ==
    (useCache /\ pc \notin {"start", "killed"}) =>
        \A s \in 1..3 :
            (Snapshot(s).st = "ok" /\ s \notin obs.opened) =>
                /\ obs.fetched[s] = 0
                /\ s \in Called =>
                      /\ ret[s] = [st |-> "ok", val |-> Decode(s, Snapshot(s).data)]
                      /\ s \in obs.hits
                      /\ \A j \in 1..(s - 1) : j \notin Called
                      /\ StageCalls(s) \cap obs.net = {}

\* C22 witness: a posts snapshot of one post answers a run that asks for two
\* posts: one post returned, no network call, the run ends well
C22_Witness ==
    /\ pc = "exit" /\ exitCode = 0 /\ cmd = 1 /\ useCache
    /\ numPosts = 2
    /\ Len(Snapshot(1).data) = 1
    /\ ret[1].val = fetchPostsPage(PageItems("", 1))
    /\ obs.hits = {1} /\ obs.net = {}

\* the stage has returned its value, and its snapshot holds all of it
Materialized(s) ==
    /\ ret[s].st = "ok"
    /\ Snapshot(s).st = "ok"
    /\ Snapshot(s).data = Encode(s, ret[s].val)
    /\ s \in Range(obs.wrote) \/ s \in obs.hits

\* GetPosts is running, or its result is being stored
FetchingPosts ==
    \/ pc \in {"GetPosts", "GetPosts_loop", "GetPosts_ret"}
    \/ pc = "WriteToCache" /\ k = 1

\* the extraction is about to be called, or its result is being stored
Extracting == pc = "ToRestaurantData" \/ (pc = "WriteToCache" /\ k = 2)

\* C24: the stages of a run follow one another: while the posts are fetched
\* and stored no extraction call and no place search has been made; the
\* extraction is called only once the posts' snapshot is completely written,
\* and before any place search; a place search is made only once the
\* candidates' snapshot is completely written.
C24_StagesInSequence ==
    /\ FetchingPosts => obs.net \cap {"gemini", "search"} = {}
    /\ Extracting => (Materialized(1) /\ "search" \notin obs.net)
    /\ (Running /\ "gemini" \in obs.net) => Materialized(1)
    /\ pc \in {"resolve", "resolve_sleep"} => Materialized(2)
    /\ (Running /\ "search" \in obs.net) =>
          /\ Materialized(2)
          /\ ~FetchingPosts /\ ~Extracting /\ pc # "getCachedOrFetch"
    /\ \A a \in 1..Len(obs.wrote) : \A b \in 1..Len(obs.wrote) :
          a < b => obs.wrote[a] < obs.wrote[b]

\* C24 witness: the full-data command without the cache has stored the posts,
\* then the two candidates, and has just made its first place search
C24_Witness ==
    /\ cmd = 3 /\ ~useCache /\ pc = "resolve_sleep"
    /\ obs.wrote = << 1, 2 >>
    /\ obs.net = {"token", "page", "gemini", "search"}
    /\ Len(searchLog) = 1
    /\ ret[2].val = << Joes, Katz >>
    /\ Snapshot(2).data = Encode(2, << Joes, Katz >>)
    /\ Len(Snapshot(1).data) = 2

\* a fetch function has returned an error of its own: GetPosts failed (and
\* has returned to exportReddit's fetch function), the extraction failed, or
\* a client could not be created
FetchFailed ==
    /\ obs.failed \cap {"token", "page", "extraction", "client"} # {}
    /\ pc # "GetPosts_ret"

\* a getCachedOrFetch call has failed on its snapshot, so that the fetch
\* function that made the call returns that error
CacheFailed == obs.failed \cap {"cache read", "cache write"} # {}

\* the stages whose fetch function has returned an error; k is the stage the
\* failure arose in
FetchFailedStages ==
    IF FetchFailed THEN k..TopStage(cmd)
    ELSE IF CacheFailed THEN (k + 1)..TopStage(cmd)
    ELSE {}

\* C27: once a fetch function has returned an error the run is over with exit
\* code 1; the stage of that fetch function, and every stage above it, has
\* returned no value and its snapshot file was not opened for writing; the
\* only files the run has written are those of the stages below that had
\* fetched their value before, complete unless that write itself failed.
C27_FailedFetchLeavesCache ==
    (FetchFailed \/ CacheFailed) =>
        /\ pc = "exit" /\ exitCode = 1
        /\ \A s \in FetchFailedStages :
              /\ obs.fetched[s] = 1
              /\ ret[s].st = "none"
              /\ s \notin obs.opened /\ s \notin Range(obs.wrote)
        /\ \A j \in obs.opened :
              /\ \A s \in FetchFailedStages : j < s
              /\ \/ j \in Range(obs.wrote) /\ Materialized(j)
                 \/ j = k /\ "cache write" \in obs.failed

\* C27 witness: the candidates' snapshot of an earlier run is there; the
\* full-data command bypasses the cache, fetches and stores the posts, and
\* the extraction fails: the candidates' snapshot is not opened
C27_Witness ==
    /\ pc = "exit" /\ exitCode = 1 /\ cmd = 3 /\ ~useCache
    /\ "extraction" \in obs.failed
    /\ FetchFailedStages = {2, 3}
    /\ obs.opened = {1} /\ obs.wrote = << 1 >>
    /\ Snapshot(2).st = "ok" /\ Snapshot(2).data = Encode(2, << Joes, Katz >>)
    /\ Snapshot(3).st = "ok"

\* C28: a CSV command with use-cache false answers no stage from a snapshot;
\* when it has ended well each of the three fetch functions has run once, the
\* token exchange, a page request and the extraction call were made, and a
\* place search if there was a candidate to search, and the three snapshots
\* were written, posts, then candidates, then resolved restaurants, each
\* holding the value its stage returned.
C28_BypassReachesEveryStage ==
    (cmd = 4 /\ ~useCache /\ pc \notin {"start", "killed"}) =>
        /\ obs.hits = {} /\ obs.saw = {}
        /\ (pc = "exit" /\ exitCode = 0) =>
              /\ obs.fetched = << 1, 1, 1 >>
              /\ obs.missed = {1, 2, 3}
              /\ {"token", "page", "gemini"} \subseteq obs.net
              /\ ret[2].val # << >> => "search" \in obs.net
              /\ obs.wrote = << 1, 2, 3 >>
              /\ \A s \in 1..3 : Materialized(s)

\* C28 witness: all three snapshots were there, the resolved one cut short;
\* the command has fetched two posts, extracted two candidates, searched
\* them and written the three snapshots anew
C28_Witness ==
    /\ cmd = 4 /\ ~useCache /\ pc = "exit" /\ exitCode = 0
    /\ obs.bypassed = {1, 2, 3}
    /\ obs.wrote = << 1, 2, 3 >>
    /\ Len(ret[1].val) = 2
    /\ ret[2].val = << Joes, Katz >>
    /\ ret[3].val = << Resolved(Joes), Resolved(Katz) >>
    /\ Snapshot(3).data = Encode(3, ret[3].val)
    /\ Len(csvFile.rows) = 3

\* C21: a run that has ended has exit code 0 exactly when it met no failure
\* other than those of single place searches: a failed or rejected token
\* exchange, a failed page request, a failed extraction, a cache read or
\* write failure, a CSV write failure each end the run with a non-zero code.
C21_ExitZeroIffNoUnrecoveredError ==
    pc = "exit" => (exitCode = 0 <=> obs.failed = {})

-----------------------------------------------------------------------------
(* Properties of the re-invocations on a damaged snapshot (SpecRerun) *)

\* the invocation before the current one
LastRun == prev.hist[Len(prev.hist)]

\* a stage called with the cache enabled while its snapshot cannot be parsed
\* returns an error: its fetch function is not invoked, nothing is written
UnreadableSnapshotFails ==
    (useCache /\ pc # "start") =>
        /\ \A s \in 1..3 :
              (Snapshot(s).st = "corrupt" /\ s \notin obs.opened) =>
                  /\ obs.fetched[s] = 0
                  /\ s \notin obs.hits
                  /\ k = s => \/ pc = "getCachedOrFetch"
                              \/ /\ pc = "exit" /\ exitCode = 1
                                 /\ "cache read" \in obs.failed
        /\ "cache read" \in obs.failed =>
              /\ pc = "exit" /\ exitCode = 1
              /\ Snapshot(k) = PartialFile
              /\ obs.opened = {} /\ obs.wrote = << >>
              /\ StageCalls(k) \cap obs.net = {}

\* the invocation after one that failed on the snapshot of stage s, with the
\* cache enabled: the snapshot is as it was and the invocation fails on it
KeepsFailing ==
    (pc # "start" /\ prev.hist # << >> /\ LastRun.readFailed > 0 /\ useCache) =>
        /\ Snapshot(LastRun.readFailed) = PartialFile
        /\ obs.net = {} /\ obs.wrote = << >>
        /\ pc = "exit" =>
              /\ exitCode = 1
              /\ "cache read" \in obs.failed /\ k = LastRun.readFailed

\* the invocation, with the cache enabled, after one that bypassed the cache
\* and ended well: every snapshot of the command was rewritten, no read
\* fails, and the command is answered from its snapshot
RepairedByBypass ==
    (/\ pc # "start" /\ prev.hist # << >>
     /\ ~LastRun.useCache /\ LastRun.exitCode = 0 /\ useCache) =>
        /\ LastRun.wrote = 1..TopStage(cmd)
        /\ \A s \in 1..TopStage(cmd) : Snapshot(s).st = "ok"
        /\ "cache read" \notin obs.failed
        /\ obs.net = {} /\ obs.wrote = << >>
        /\ pc = "exit" => (exitCode = 0 /\ obs.hits = {TopStage(cmd)})

\* C23: a stage called with the cache enabled on a snapshot that cannot be
\* parsed returns an error without invoking its fetch function and without
\* touching the snapshot, so the same command with the cache enabled fails
\* again; an invocation that bypasses the cache and ends well has rewritten
\* the snapshot, and the invocation with the cache enabled after it succeeds.
C23_UnreadableSnapshotNeedsBypass ==
    /\ UnreadableSnapshotFails
    /\ KeepsFailing
    /\ RepairedByBypass

\* C23 witness: the posts' snapshot is cut short and there is no candidates'
\* snapshot; the restaurant-data command fails on it with the cache enabled,
\* rewrites both snapshots with the cache bypassed, and then ends well with
\* the cache enabled
C23_Witness ==
    /\ Len(prev.hist) = 2 /\ cmd = 2
    /\ prev.hist[1].useCache /\ prev.hist[1].exitCode = 1
    /\ prev.hist[1].readFailed = 1
    /\ ~prev.hist[2].useCache /\ prev.hist[2].exitCode = 0
    /\ prev.hist[2].wrote = {1, 2}
    /\ useCache /\ pc = "exit" /\ exitCode = 0
    /\ obs.hits = {2} /\ obs.net = {}
    /\ Snapshot(1).st = "ok"

-----------------------------------------------------------------------------
(* Properties of the cache keys (SpecKeys) *)

\* C5: the cache keys of different (community, stage) pairs never collide, so
\* that no stage of a run is ever answered from a snapshot that another stage
\* or another community wrote.
C5_KeysNeverCollide ==
    /\ ~obs.foreign
    /\ \A s \in obs.hits : Snapshot(s).by = << subreddit, s >>

-----------------------------------------------------------------------------
(* Properties of the extraction (SpecExtract) *)

\* C13: the posts are sent to the extraction service in chunks of at most 100:
\* no call carries more than 100 posts, and when the call of the stage has
\* returned a list, ceil(N/100) calls were made for the N posts.
C13_ChunksOfHundred ==
    /\ \A j \in 1..Len(obs.extract) : obs.extract[j].posts <= 100
    /\ (pc = "WriteToCache" /\ k = 2)
          => Len(obs.extract) = (Len(posts) + 99) \div 100

-----------------------------------------------------------------------------
(* Properties of the configuration (SpecConfig) *)

\* C20: when one of the four credentials is not set, the run fails before any
\* stage: no token exchange, page request, extraction call or place search is
\* made, no snapshot file is touched, and the run never ends well.
C20_MissingCredentialFailsFirst ==
    env # Credentials =>
        /\ obs.net = {}
        /\ obs.opened = {} /\ obs.wrote = << >>
        /\ pc = "exit" => exitCode = 1

-----------------------------------------------------------------------------
(* Properties of the export (SpecCsv, SpecCsvLimit) *)

\* the list the resolution stage returned
resolved == ret[3].val

Count(seq, x) == Cardinality({ j \in 1..Len(seq) : seq[j] = x })

IsPermutation(a, b) ==
    /\ Len(a) = Len(b)
    /\ \A x \in Range(a) \cup Range(b) : Count(a, x) = Count(b, x)

Exported == pc = "exit" /\ exitCode = 0

\* the rows of the file after the header
DataRows == Tail(csvFile.rows)

\* the data rows are the rows of the list `restaurants`, in its order
RowsOfRestaurants ==
    /\ Len(DataRows) = Len(restaurants)
    /\ \A j \in 1..Len(restaurants) :
          /\ DataRows[j][5] = restaurants[j].RedditUrl
          /\ DataRows[j][2] = restaurants[j].GoogleMapsData.Type
          /\ DataRows[j] = Row(restaurants[j], j)

NonIncreasing(l) == \A j \in 1..(Len(l) - 1) : l[j].Upvotes >= l[j + 1].Upvotes

C17_RowsSortedPermutation ==
    Exported =>
        /\ RowsOfRestaurants
        /\ IsPermutation(restaurants, resolved)
        /\ NonIncreasing(restaurants)

\* C17 witness: three restaurants returned in the order 5, 9, 9 upvotes
C17_Witness ==
    /\ Exported
    /\ Len(resolved) = 3 /\ resolved[1].Upvotes = 5 /\ resolved[3].Upvotes = 9
    /\ Len(DataRows) = 3
    /\ restaurants[3] = resolved[1]

\* C18: the export of N restaurants leaves N + 1 rows: the header, then one
\* row per restaurant whose Name field is "<name> (#<i>, <upvotes> upvotes)"
\* for the i-th data row, i = 1..N.
C18_HeaderAndRankedRows ==
    Exported =>
        /\ Len(csvFile.rows) = Len(resolved) + 1
        /\ csvFile.rows[1] = header
        /\ \A j \in 1..Len(resolved) :
              csvFile.rows[j + 1][1] =
                restaurants[j].Name \o " (#" \o ToString(j) \o ", "
                  \o ToString(restaurants[j].Upvotes) \o " upvotes)"

\* C18 witness: two restaurants, three rows, the first ranked #1
C18_Witness ==
    /\ Exported /\ Len(resolved) = 2
    /\ Len(csvFile.rows) = 3
    /\ csvFile.rows[2][1] = "Katz (#1, 9 upvotes)"
    /\ csvFile.rows[3][1] = "Joe's Pizza (#2, 5 upvotes)"

\* what the export writes when nothing fails
ExpectedRows ==
    << header >> \o [j \in 1..Len(restaurants) |-> Row(restaurants[j], j)]

\* C19: a writer that was opened is open only while the header and the rows
\* are written; however the export returns, the writer is closed and the rows
\* written until then are in the file.
C19_WriterClosedOnEveryPath ==
    /\ writer.st = "open" => pc \in {"WriteHeader", "WriteRow"}
    /\ (pc = "exit" /\ csvFile.st = "file") =>
          /\ writer.st = "closed"
          /\ csvFile.rows = SubSeq(ExpectedRows, 1, i)
          /\ exitCode = 0 => csvFile.rows = ExpectedRows

\* C19 witness: the header and one row were written, the second row failed
C19_Witness ==
    /\ pc = "exit" /\ exitCode = 1
    /\ Len(restaurants) >= 2 /\ i = 2
    /\ writer.st = "closed"
    /\ Len(csvFile.rows) = 2

-----------------------------------------------------------------------------
(* Properties of GetPosts (SpecPosts) *)

RECURSIVE SumN(_, _)
\* posts returned by the first m logged responses
SumN(log, m) == IF m = 0 THEN 0 ELSE SumN(log, m - 1) + log[m].n

RECURSIVE PagesOf(_, _)
\* concatenation of the posts carried by the first m logged responses
PagesOf(log, m) ==
    IF m = 0 THEN <<>>
    ELSE PagesOf(log, m - 1) \o fetchPostsPage(PageItems(log[m].after, log[m].n))

CeilDiv(a, b) == (a + b - 1) \div b

\* every response so far was a full page carrying a continuation cursor
FullPagesWithCursor ==
    \A j \in 1..Len(reqLog) :
        reqLog[j].ok /\ reqLog[j].n = reqLog[j].limit /\ reqLog[j].next # ""

\* C9: every page request asks for min(100, N - posts fetched so far) posts,
\* never more than 100, and against a source that returns full pages with a
\* continuation cursor a GetPosts call for N > 0 posts has issued exactly
\* ceil(N/100) page requests when it returns.
C9_PageRequestSizes ==
    /\ \A j \in 1..Len(reqLog) :
          /\ reqLog[j].limit <= 100
          /\ reqLog[j].limit = Min(100, numPosts - SumN(reqLog, j - 1))
    /\ (pc = "GetPosts_ret" /\ numPosts > 0 /\ ~gpErr /\ FullPagesWithCursor)
          => Len(reqLog) = CeilDiv(numPosts, 100)

\* C9 witness: 250 posts asked of a full-page source: requests of 100, 100, 50
C9_Witness ==
    /\ pc = "GetPosts_ret" /\ numPosts = 250 /\ ~gpErr /\ FullPagesWithCursor
    /\ [j \in 1..Len(reqLog) |-> reqLog[j].limit] = << 100, 100, 50 >>

\* C10: a page request is issued only while the count is not reached and the
\* preceding page carried a cursor; every request after the first carries the
\* cursor of the preceding response (the first carries none); and when the
\* cursor runs out before the count is reached GetPosts returns, without
\* error, exactly the posts of the pages fetched so far.
C10_PaginationStops ==
    /\ \A j \in 1..Len(reqLog) :
          /\ SumN(reqLog, j - 1) < numPosts
          /\ reqLog[j].after = (IF j = 1 THEN "" ELSE reqLog[j - 1].next)
          /\ j > 1 => (reqLog[j - 1].ok /\ reqLog[j - 1].next # "")
    /\ (pc = "GetPosts_loop" /\ Len(reqLog) > 0)
          => reqLog[Len(reqLog)].next # ""
    /\ (/\ pc = "GetPosts_ret" /\ Len(reqLog) > 0
        /\ reqLog[Len(reqLog)].ok /\ reqLog[Len(reqLog)].next = "")
          => /\ ~gpErr
             /\ GetPostsResult = PagesOf(reqLog, Len(reqLog))
             /\ Len(GetPostsResult) = SumN(reqLog, Len(reqLog))

\* C10 witness: the cursor runs out on the second page, before the count
C10_Witness ==
    /\ pc = "GetPosts_ret" /\ Len(reqLog) = 2 /\ ~gpErr
    /\ reqLog[2].ok /\ reqLog[2].next = "" /\ reqLog[2].n > 0
    /\ 0 < Len(GetPostsResult) /\ Len(GetPostsResult) < numPosts

-----------------------------------------------------------------------------
(* Termination of GetPosts (SpecTerminate) *)

\* C26: whatever count is asked for and whatever the pages of the source
\* carry, zero posts with a continuation cursor included, a GetPosts call
\* whose requests all return comes to its return.
C26_GetPostsTerminates == <>(pc = "GetPosts_ret")

-----------------------------------------------------------------------------
(* Properties of the forum client over several calls (SpecClient) *)

Answered(r) == ~r.err

\* the token exchanges that were answered, a failed request left aside
AnsweredExchanges == SelectSeq(obs.exchanges, Answered)

\* C25: over the GetPosts calls made on one client at most one token exchange
\* is answered, it precedes the first page request, and every page request
\* carries the token of that exchange (exchanges whose request failed
\* outright, which return before any page request, are left aside).
C25_OneTimeTokenExchange ==
    /\ Len(AnsweredExchanges) <= 1
    /\ reqLog # << >> =>
          /\ Len(AnsweredExchanges) = 1
          /\ \A j \in 1..Len(reqLog) :
                reqLog[j].token = AnsweredExchanges[1].access_token

-----------------------------------------------------------------------------
(* Properties of the resolution loop (SpecResolve) *)

IsSearch(e) == e.ev = "search"

\* the place searches made so far, in order
Searches == SelectSeq(searchLog, IsSearch)

\* the outcome classes of one search: the four the specification names, and
\* a first match that carries a rating count but no location or no type
OutcomeKind(resp) ==
    IF resp.err THEN "error"
    ELSE IF resp.Places = << >> THEN "zero"
    ELSE IF resp.Places[1].UserRatingCount = Nil THEN "nocount"
    ELSE IF resp.Places[1].Location # Nil /\ resp.Places[1].PrimaryTypeDisplayName # Nil
      THEN "usable"
    ELSE "incomplete"

NamedOutcomes == {"error", "zero", "nocount", "usable"}

RECURSIVE UsableSubseq(_, _, _)
\* the candidates among the first m whose search had a usable match, resolved
UsableSubseq(cands, S, m) ==
    IF m = 0 THEN << >>
    ELSE IF OutcomeKind(S[m].resp) = "usable"
      THEN Append(UsableSubseq(cands, S, m - 1),
                  ResolvedRestaurant(cands[m], S[m].resp.Places[1]))
      ELSE UsableSubseq(cands, S, m - 1)

C7_DiscardIsNotAnError ==
    \A j \in 1..Len(Searches) :
        LET e == Searches[j] IN
        /\ OutcomeKind(e.resp) \in {"zero", "nocount"}
             => (e.result = Nil /\ ~e.err /\ ~e.panic)
        /\ e.result # Nil
             => e.result[1] = ResolvedRestaurant(restaurantData[j], e.resp.Places[1])

\* C7 witness: both discards have happened, one of them with a usable second
\* match, and the loop went on
C7_Witness ==
    /\ pc = "WriteToCache" /\ result = << >>
    /\ \E j \in 1..Len(Searches) : OutcomeKind(Searches[j].resp) = "zero"
    /\ \E j \in 1..Len(Searches) :
         /\ OutcomeKind(Searches[j].resp) = "nocount"
         /\ Len(Searches[j].resp.Places) = 2
         /\ OutcomeKind([err |-> FALSE, Places |-> Tail(Searches[j].resp.Places)]) = "usable"

\* C8 (as claimed): every place search but the first is immediately preceded
\* by a 2-second sleep, whatever the outcome of the search before it.
C8_PauseBetweenSearches ==
    \A j \in 2..Len(searchLog) :
        IsSearch(searchLog[j])
          => (searchLog[j - 1].ev = "sleep" /\ searchLog[j - 1].secs = 2)

\* C15: the list handed to place resolution is deduplicated: the candidates
\* searched so far have pairwise different names and come in non-increasing
\* order of upvotes.
C15_ResolutionInputDeduplicated ==
    \A a \in 1..Len(Searches) : \A b \in 1..Len(Searches) :
        a < b => /\ restaurantData[a].Name # restaurantData[b].Name
                 /\ restaurantData[a].Upvotes >= restaurantData[b].Upvotes

====
